---------------------------- MODULE Spec2Model ----------------------------
(***************************************************************************)
(* A model of the ping-pong ball tracker of src/motion_tracker.py: the     *)
(* frame enumeration of imageSamples, the orchestration of main(), the     *)
(* particle filter of motionTracker (propagate, histograms, betas,         *)
(* resample, MMSE estimate) and the Hough-circle alternative               *)
(* track_ball_hough.                                                       *)
(*                                                                         *)
(* Numbers.  The states of the particles, the boxes, and the centres and   *)
(* radii of the circles are pairs <<n, d>>: the rational n/d in lowest     *)
(* terms with d > 0, or one of the IEEE special values <<0,0>> (nan),      *)
(* <<1,0>> (+inf), <<-1,0>> (-inf).  Arithmetic is exact on the rationals, *)
(* which are halves and whole numbers here, and follows numpy on the       *)
(* special values (x/0 is +-inf, 0/0 is nan, nan is contagious,            *)
(* comparisons with nan are false).  The distances, densities and weights  *)
(* of the particles and the velocities of the ball are IEEE 754 doubles,   *)
(* computed bit by bit as numpy and scipy compute them (section Doubles).  *)
(*                                                                         *)
(* Strings that the program parses (file names) are sequences of           *)
(* one-character strings, so that the regular expressions of the source    *)
(* are computed character by character.                                    *)
(***************************************************************************)
EXTENDS Integers, Sequences, FiniteSets, TLC

(***************************************************************************)
(* Floats                                                                  *)
(***************************************************************************)
Abs(n) == IF n < 0 THEN -n ELSE n

Sign(n) == IF n < 0 THEN -1 ELSE IF n > 0 THEN 1 ELSE 0

Min(a, b) == IF a <= b THEN a ELSE b

Max(a, b) == IF a >= b THEN a ELSE b

RECURSIVE GCD(_, _)
GCD(a, b) == IF b = 0 THEN a ELSE GCD(b, a % b)

NaN == <<0, 0>>

FNorm(n, d) ==
    IF d = 0 THEN <<Sign(n), 0>>
    ELSE LET g == GCD(Abs(n), Abs(d))
             s == IF d < 0 THEN -1 ELSE 1
         IN  <<(s * n) \div g, (s * d) \div g>>

R(n) == <<n, 1>>

IsNaN(x) == x = NaN

IsFinite(x) == x[2] # 0

FAdd(x, y) ==
    IF IsNaN(x) \/ IsNaN(y) THEN NaN
    ELSE IF IsFinite(x) /\ IsFinite(y)
         THEN FNorm(x[1] * y[2] + y[1] * x[2], x[2] * y[2])
    ELSE IF ~IsFinite(x) /\ ~IsFinite(y) THEN (IF x = y THEN x ELSE NaN)
    ELSE IF IsFinite(x) THEN y ELSE x

FNeg(x) == <<-x[1], x[2]>>

FSub(x, y) == FAdd(x, FNeg(y))

FMul(x, y) == FNorm(x[1] * y[1], x[2] * y[2])

FDiv(x, y) ==
    IF IsNaN(x) \/ IsNaN(y) THEN NaN
    ELSE IF ~IsFinite(y) THEN (IF IsFinite(x) THEN R(0) ELSE NaN)
    ELSE IF ~IsFinite(x) THEN (IF y[1] < 0 THEN FNeg(x) ELSE x)
    ELSE FNorm(x[1] * y[2], x[2] * y[1])

\* x <= y as numpy compares: false when either side is nan
FLe(x, y) ==
    /\ ~IsNaN(x)
    /\ ~IsNaN(y)
    /\ IF IsFinite(x) /\ IsFinite(y) THEN x[1] * y[2] <= y[1] * x[2]
       ELSE IF ~IsFinite(x) THEN (x[1] < 0 \/ x = y)
       ELSE y[1] > 0

FLt(x, y) == FLe(x, y) /\ x # y

\* Python's int(x) of a finite float: truncation toward zero
IntTrunc(x) ==
    IF x[1] >= 0 THEN x[1] \div x[2] ELSE -((-x[1]) \div x[2])

RECURSIVE FSumTo(_, _)
FSumTo(s, k) == IF k = 0 THEN R(0) ELSE FAdd(FSumTo(s, k - 1), s[k])

\* numpy's sum of a vector of floats
FSum(s) == FSumTo(s, Len(s))

(***************************************************************************)
(* Doubles.  The weights of the particles are computed by numpy and scipy  *)
(* in IEEE 754 binary64; the operators below are that arithmetic: every    *)
(* operation returns the double nearest to the exact result, ties to the   *)
(* even mantissa.  Whole numbers of any size are sequences of limbs in     *)
(* base 2^15, lowest limb first, no zero limb on top; <<>> is 0.  A double *)
(* is <<s, M, e>>: the sign s (1 or -1), the mantissa M (a whole number    *)
(* below 2^53, at least 2^52 unless e = -1074) and the exponent e of the   *)
(* mantissa's unit, the value being s * M * 2^e.  <<0, <<>>, 0>> is 0,     *)
(* <<0, <<>>, 1>> is nan, <<1, <<>>, 0>> and <<-1, <<>>, 0>> are inf and   *)
(* -inf.  The operators on whole numbers work limb by limb without         *)
(* recursion where they can, and look at their arguments first, which      *)
(* keeps the evaluation of a chain of operations shallow.                  *)
(***************************************************************************)
LimbBits == 15

LimbBase == 2 ^ LimbBits

MantissaBits == 53

MinExponent == -1074

MaxExponent == 971

\* the limb i of a, 0 above the top limb
Limb(a, i) == IF i >= 1 /\ i <= Len(a) THEN a[i] ELSE 0

\* the sequence f with its items evaluated, once each
AsTuple(f) == f \o <<>>

\* the largest number of a finite set of numbers that is not empty
SetMax(S) == CHOOSE k \in S : \A j \in S : j <= k

\* a without the zero limbs on top
BigTrim(a) ==
    IF a = <<>> \/ a[Len(a)] # 0 THEN a
    ELSE LET top == {k \in 1..Len(a) : a[k] # 0}
         IN  IF top = {} THEN <<>> ELSE SubSeq(a, 1, SetMax(top))

\* the whole number n >= 0 in limbs
BigOf(n) ==
    BigTrim(<<n % LimbBase, (n \div LimbBase) % LimbBase,
              n \div (LimbBase * LimbBase)>>)

\* -1, 0 or 1 as a < b, a = b or a > b
BigCmp(a, b) ==
    IF a = b THEN 0
    ELSE IF Len(a) # Len(b) THEN (IF Len(a) < Len(b) THEN -1 ELSE 1)
    ELSE LET k == SetMax({j \in 1..Len(a) : a[j] # b[j]})
         IN  IF a[k] < b[k] THEN -1 ELSE 1

\* a + b: the carry into limb k is 1 when some limb below it overflows and
\* every limb between the two is full
BigAdd(a, b) ==
    IF a = <<>> THEN b
    ELSE IF b = <<>> THEN a
    ELSE LET n == Max(Len(a), Len(b)) + 1
             s == AsTuple([k \in 1..n |-> Limb(a, k) + Limb(b, k)])
             carry(k) == IF \E j \in 1..(k - 1) :
                               /\ s[j] >= LimbBase
                               /\ \A m \in (j + 1)..(k - 1) :
                                     s[m] = LimbBase - 1
                         THEN 1 ELSE 0
         IN  BigTrim(AsTuple([k \in 1..n |->
                                (s[k] + carry(k)) % LimbBase]))

\* a - b for a >= b: the borrow from limb k is 1 when some limb below it
\* is short and every limb between the two is level
BigSub(a, b) ==
    IF a = b THEN <<>>
    ELSE LET s == AsTuple([k \in 1..Len(a) |-> a[k] - Limb(b, k)])
             borrow(k) == IF \E j \in 1..(k - 1) :
                                /\ s[j] < 0
                                /\ \A m \in (j + 1)..(k - 1) : s[m] = 0
                          THEN 1 ELSE 0
         IN  BigTrim(AsTuple([k \in 1..Len(a) |->
                                (s[k] - borrow(k)) % LimbBase]))

\* the whole number of the digits d, lowest first, each from 0 up and
\* below 2^31
BigOfDigits(d) ==
    LET lo == AsTuple([k \in 1..Len(d) |-> d[k] % LimbBase])
        mid == <<0>> \o [k \in 1..Len(d) |-> (d[k] \div LimbBase) % LimbBase]
        top == <<0, 0>>
               \o [k \in 1..Len(d) |-> d[k] \div (LimbBase * LimbBase)]
    IN  BigAdd(BigAdd(BigTrim(lo), BigTrim(mid)), BigTrim(top))

RECURSIVE ColumnSum(_, _, _, _)
\* the digit k of a * b from the limbs 1..i of a: the low halves of the
\* products of column k and the high halves of those of column k - 1
ColumnSum(a, b, k, i) ==
    IF i = 0 THEN 0
    ELSE ((a[i] * Limb(b, k + 1 - i)) % LimbBase)
         + ((a[i] * Limb(b, k - i)) \div LimbBase)
         + ColumnSum(a, b, k, i - 1)

\* a * b, for a of at most 2^15 limbs
BigMul(a, b) ==
    IF a = <<>> \/ b = <<>> THEN <<>>
    ELSE BigOfDigits(AsTuple([k \in 1..(Len(a) + Len(b)) |->
                                ColumnSum(a, b, k, Len(a))]))

\* a * 2^bits
BigShl(a, bits) ==
    LET q == bits \div LimbBits
        r == bits % LimbBits
    IN  IF a = <<>> THEN <<>>
        ELSE BigTrim(AsTuple([k \in 1..(Len(a) + q + 1) |->
                        ((Limb(a, k - q) * (2 ^ r)) % LimbBase)
                        + (Limb(a, k - q - 1) \div (2 ^ (LimbBits - r)))]))

\* a \div 2^bits
BigShr(a, bits) ==
    LET q == bits \div LimbBits
        r == bits % LimbBits
    IN  IF a = <<>> THEN <<>>
        ELSE BigTrim(AsTuple([k \in 1..Len(a) |->
                        (Limb(a, k + q) \div (2 ^ r))
                        + ((Limb(a, k + q + 1) % (2 ^ r))
                           * (2 ^ (LimbBits - r)))]))

\* a % 2^bits
BigLowBits(a, bits) ==
    LET q == bits \div LimbBits
        r == bits % LimbBits
    IN  IF a = <<>> THEN <<>>
        ELSE BigTrim(AsTuple([k \in 1..Len(a) |->
                        IF k <= q THEN a[k]
                        ELSE IF k = q + 1 THEN a[k] % (2 ^ r) ELSE 0]))

\* the number of bits of n, for 0 <= n < 2^30
BitLenSmall(n) == CHOOSE l \in 0..30 : n < 2 ^ l /\ (l = 0 \/ 2 ^ (l - 1) <= n)

\* the number of bits of a
BitLen(a) ==
    IF a = <<>> THEN 0
    ELSE LimbBits * (Len(a) - 1) + BitLenSmall(a[Len(a)])

RECURSIVE QuotientLimb(_, _, _, _)
\* <<the limb r \div b before the limbs q, r - (r \div b) * b>>, the limb
\* counted up from q0 <= r \div b with rem = r - q0 * b
QuotientLimb(rem, b, q0, q) ==
    IF BigCmp(rem, b) < 0 THEN <<<<q0>> \o q, rem>>
    ELSE QuotientLimb(BigSub(rem, b), b, q0 + 1, q)

\* the step of the long division by b, whose top limb is at least
\* LimbBase / 2, that divides r and puts the limb before the limbs q: the
\* limb is at least q0, the quotient of the top of r by the top limb of b
\* and one
BigDivLimb(r, b, q) ==
    LET q0 == (Limb(r, Len(b) + 1) * LimbBase + Limb(r, Len(b)))
                  \div (b[Len(b)] + 1)
    IN  QuotientLimb(BigSub(r, BigMul(b, BigOf(q0))), b, q0, q)

RECURSIVE BigDivAt(_, _, _, _)
\* long division of the limbs i, i - 1, ... 1 of a by b, whose top limb is
\* at least LimbBase / 2, with qr = <<the quotient, the remainder>> of the
\* limbs above i: <<the quotient, whether the remainder is 0>>
BigDivAt(a, b, i, qr) ==
    IF i = 0 THEN <<BigTrim(qr[1]), qr[2] = <<>> >>
    ELSE IF qr[2] = <<>> /\ a[i] = 0
    THEN BigDivAt(a, b, i - 1, <<<<0>> \o qr[1], <<>> >>)
    ELSE BigDivAt(a, b, i - 1,
                  BigDivLimb(BigTrim(<<a[i]>> \o qr[2]), b, qr[1]))

\* <<a \div b, whether b divides a>> for b > 0
BigDiv(a, b) ==
    IF BigCmp(a, b) < 0 THEN <<<<>>, a = <<>> >>
    ELSE LET s == LimbBits - BitLenSmall(b[Len(b)])
             num == BigShl(a, s)
             den == BigShl(b, s)
             i == Len(num) - Len(den) + 1
         IN  BigDivAt(num, den, i, <<<<>>, SubSeq(num, i + 1, Len(num))>>)

RECURSIVE BigDivSmallAt(_, _, _, _, _)
\* division of the limbs i, i - 1, ... 1 of a by k, with the remainder rem
\* and the quotient q of the limbs above i
BigDivSmallAt(a, k, i, rem, q) ==
    IF i = 0 THEN q
    ELSE LET t == rem * LimbBase + a[i]
         IN  BigDivSmallAt(a, k, i - 1, t % k, <<t \div k>> \o q)

\* a \div k for a limb k > 0
BigDivSmall(a, k) == BigTrim(BigDivSmallAt(a, k, Len(a), 0, <<>>))

RECURSIVE SqrtNear(_, _)
\* n steps of Newton's iteration for the square root of x > 0 from
\* LimbBase: after five steps a number from sqrt(x) - 1 up and close to it,
\* for 2^28 <= x < 2^30
SqrtNear(x, n) ==
    IF n = 0 THEN LimbBase
    ELSE LET s == SqrtNear(x, n - 1) IN (s + x \div s) \div 2

\* one step of Newton's iteration for the square root of a from s >= sqrt(a):
\* a number from the whole part of sqrt(a) up, and at most
\* (s - sqrt(a))^2 / (2 s) above sqrt(a)
BigSqrtStep(a, s) == BigShr(BigAdd(s, BigDiv(a, s)[1]), 1)

\* <<s, whether s is sqrt(a)>>
BigSqrtExact(a, s) == <<s, BigMul(s, s) = a>>

\* the same for the whole part of sqrt(a), which is s8 or s8 - 1
BigSqrtFloor(a, s8) ==
    BigSqrtExact(a, IF BigCmp(BigMul(s8, s8), a) > 0
                    THEN BigSub(s8, <<1>>) ELSE s8)

\* <<the whole part of sqrt(a), whether it is sqrt(a)>>, for a of eight
\* limbs with a top limb from 2^13 up: the root of the top two limbs, then
\* of the top four, then of all eight
BigSqrt(a) ==
    BigSqrtFloor(a,
        BigSqrtStep(a, BigSqrtStep(a, BigShl(
            BigAdd(BigSqrtStep(SubSeq(a, 5, 8),
                               BigOf((SqrtNear(a[8] * LimbBase + a[7], 5) + 2)
                                     * LimbBase)),
                   <<1>>),
            2 * LimbBits))))

DZero == <<0, <<>>, 0>>

DNaN == <<0, <<>>, 1>>

DInf(s) == <<s, <<>>, 0>>

DIsNaN(x) == x = DNaN

DIsInf(x) == x[1] # 0 /\ x[2] = <<>>

\* the double s * M * 2^e of a rounded mantissa M, which has one bit too
\* many when the rounding carried into a new bit
DRoundPack(s, M, e) ==
    IF M = <<>> THEN DZero
    ELSE IF BitLen(M) > MantissaBits
    THEN (IF e + 1 > MaxExponent THEN DInf(s) ELSE <<s, BigShr(M, 1), e + 1>>)
    ELSE IF e > MaxExponent THEN DInf(s)
    ELSE <<s, M, e>>

\* DRound for N > 0, which drops the k lowest bits of N (or, for k <= 0,
\* appends -k zero bits) and rounds to nearest, ties to even: c compares the
\* dropped bits with a half
DRoundAt(s, N, e, sticky, k) ==
    IF k <= 0
    THEN (IF e + k > MaxExponent THEN DInf(s)
          ELSE <<s, BigShl(N, -k), e + k>>)
    ELSE LET c == BigCmp(BigLowBits(N, k), BigShl(<<1>>, k - 1))
         IN  DRoundPack(s,
                        IF \/ c > 0
                           \/ /\ c = 0
                              /\ sticky \/ Limb(BigShr(N, k), 1) % 2 = 1
                        THEN BigAdd(BigShr(N, k), <<1>>)
                        ELSE BigShr(N, k),
                        e + k)

\* the double nearest to s * (N + f) * 2^e, where 0 <= f < 1 and f > 0 iff
\* sticky; when sticky, N has at least two bits more than the mantissa
DRound(s, N, e, sticky) ==
    IF N = <<>> THEN DZero
    ELSE DRoundAt(s, N, e, sticky,
                  Max(BitLen(N) - MantissaBits, MinExponent - e))

\* DRound with the parts of its result in a pair
DRoundPair(s, Nf, e) == DRound(s, Nf[1], e, ~Nf[2])

\* float(n) of a whole number n
DOfInt(n) == DRound(Sign(n), BigOf(Abs(n)), 0, FALSE)

DNeg(x) == IF DIsNaN(x) THEN x ELSE <<-x[1], x[2], x[3]>>

\* x * y
DMul(x, y) ==
    IF DIsNaN(x) \/ DIsNaN(y) THEN DNaN
    ELSE IF DIsInf(x) \/ DIsInf(y)
    THEN (IF x = DZero \/ y = DZero THEN DNaN ELSE DInf(x[1] * y[1]))
    ELSE IF x = DZero \/ y = DZero THEN DZero
    ELSE DRound(x[1] * y[1], BigMul(x[2], y[2]), x[3] + y[3], FALSE)

\* x / y as numpy divides: x / 0 is an infinity, 0 / 0 is nan
DDiv(x, y) ==
    IF DIsNaN(x) \/ DIsNaN(y) THEN DNaN
    ELSE IF DIsInf(x) THEN (IF DIsInf(y) THEN DNaN
                            ELSE DInf(IF y[1] < 0 THEN -x[1] ELSE x[1]))
    ELSE IF DIsInf(y) THEN DZero
    ELSE IF y = DZero THEN (IF x = DZero THEN DNaN ELSE DInf(x[1]))
    ELSE IF x = DZero THEN DZero
    ELSE LET sh == 2 * MantissaBits + 7 - BitLen(x[2])
         IN  DRoundPair(x[1] * y[1], BigDiv(BigShl(x[2], sh), y[2]),
                        x[3] - y[3] - sh)

\* np.sqrt(x): nan for x < 0
DSqrt(x) ==
    IF DIsNaN(x) \/ x[1] < 0 THEN DNaN
    ELSE IF x = DZero \/ DIsInf(x) THEN x
    ELSE LET sh0 == 8 * LimbBits - BitLen(x[2])
             sh == IF (x[3] - sh0) % 2 = 0 THEN sh0 ELSE sh0 - 1
         IN  DRoundPair(1, BigSqrt(BigShl(x[2], sh)), (x[3] - sh) \div 2)

\* the double nearest to (sx * A + sy * B) * 2^e, or, when far, to
\* (sx * A + sy * f) * 2^e for some 0 < f < 1, B being 1; c compares A
\* with B
DAddCompared(sx, sy, A, B, e, far, c) ==
    DRound(IF sx = sy \/ c >= 0 THEN sx ELSE sy,
           IF sx = sy THEN (IF far THEN A ELSE BigAdd(A, B))
           ELSE IF c >= 0 THEN BigSub(A, B)
           ELSE BigSub(B, A),
           e, far)

\* x + y for finite x and y that are not 0, x of the larger exponent
DAddAligned(x, y) ==
    IF x[3] - y[3] > MantissaBits + 10
    THEN DAddCompared(x[1], y[1], BigShl(x[2], 2), <<1>>, x[3] - 2, TRUE, 1)
    ELSE DAddCompared(x[1], y[1], BigShl(x[2], x[3] - y[3]), y[2], y[3],
                      FALSE, BigCmp(BigShl(x[2], x[3] - y[3]), y[2]))

\* x + y
DAdd(x, y) ==
    IF DIsNaN(x) \/ DIsNaN(y) THEN DNaN
    ELSE IF DIsInf(x) THEN (IF DIsInf(y) /\ x # y THEN DNaN ELSE x)
    ELSE IF DIsInf(y) THEN y
    ELSE IF x = DZero THEN y
    ELSE IF y = DZero THEN x
    ELSE DAddAligned(IF x[3] >= y[3] THEN x ELSE y,
                     IF x[3] >= y[3] THEN y ELSE x)

\* x - y
DSub(x, y) == DAdd(x, DNeg(y))

\* x <= y; False when either is nan
DLe(x, y) ==
    /\ ~DIsNaN(x)
    /\ ~DIsNaN(y)
    /\ \/ x = y
       \/ IF DIsInf(x) THEN x[1] < 0
          ELSE IF DIsInf(y) THEN y[1] > 0
          ELSE DSub(x, y)[1] < 0

RECURSIVE DSumTo(_, _)
\* the sum of the first k items of s, added one after the other
DSumTo(s, k) == IF k = 0 THEN DZero ELSE DAdd(DSumTo(s, k - 1), s[k])

DSum(s) == DSumTo(s, Len(s))

\* the bits kept after the point in exp
ExpBits == 6 * LimbBits

\* the whole part of ln(2) * 2^ExpBits
Ln2 == <<3790, 24143, 30618, 31289, 1533, 22713>>

\* the times the argument of the series of exp is halved
ExpHalvings == 6

\* term * r / j, in units of 2^-ExpBits
ExpTerm(term, r, j) == BigDivSmall(BigShr(BigMul(term, r), ExpBits), j)

RECURSIVE ExpSeries(_, _, _, _)
\* acc - term + term * r/(j+1) - term * r^2/((j+1) (j+2)) + ... for an odd
\* j, and acc + term - ... for an even one, in units of 2^-ExpBits
ExpSeries(r, term, j, acc) ==
    IF term = <<>> \/ acc = <<>> THEN acc
    ELSE ExpSeries(r, ExpTerm(term, r, j + 1), j + 1,
                   IF j % 2 = 1 THEN BigSub(acc, term)
                   ELSE BigAdd(acc, term))

RECURSIVE ExpSquare(_, _)
\* v^(2^n), in units of 2^-ExpBits
ExpSquare(v, n) ==
    IF n = 0 \/ v = <<>> THEN v
    ELSE ExpSquare(BigShr(BigMul(v, v), ExpBits), n - 1)

\* the double nearest to exp(-Y / 2^ExpBits), where k is the whole part of
\* Y / Ln2: 2^-k * exp(-r)^(2^ExpHalvings), where exp(-r) is the series
\* 1 - r + r^2 / 2 - ... for r = (Y - k * Ln2) / 2^ExpHalvings, in units of
\* 2^-ExpBits
DExpReduced(Y, k) ==
    LET r == BigShr(BigSub(Y, BigMul(k, Ln2)), ExpHalvings)
        one == BigShl(<<1>>, ExpBits)
    IN  DRound(1,
               ExpSquare(ExpSeries(r, ExpTerm(one, r, 1), 1, one),
                         ExpHalvings),
               -ExpBits - (Limb(k, 1) + LimbBase * Limb(k, 2)), TRUE)


\* np.exp(-y) for a double y >= 0: exp(-y) = 2^-k * exp(-r) with
\* y = k ln(2) + r and 0 <= r < ln(2); exp(-r) is the series of
\* exp(-r / 2^ExpHalvings) squared ExpHalvings times, to ExpBits bits, and
\* the result is rounded to the nearest double
DExpNeg(y) ==
    IF DIsNaN(y) THEN DNaN
    ELSE IF y = DZero THEN DOfInt(1)
    ELSE IF DIsInf(y) \/ y[3] + MantissaBits > 11 THEN DZero
    ELSE LET Y == IF y[3] + ExpBits >= 0 THEN BigShl(y[2], y[3] + ExpBits)
                  ELSE BigShr(y[2], -(y[3] + ExpBits))
         IN  DExpReduced(Y, BigDiv(Y, Ln2)[1])

(***************************************************************************)
(* Strings and the two regular expressions of the source                   *)
(***************************************************************************)
Digits == {"0", "1", "2", "3", "4", "5", "6", "7", "8", "9"}

DigitValue(c) ==
    CASE c = "0" -> 0 [] c = "1" -> 1 [] c = "2" -> 2 [] c = "3" -> 3
      [] c = "4" -> 4 [] c = "5" -> 5 [] c = "6" -> 6 [] c = "7" -> 7
      [] c = "8" -> 8 [] c = "9" -> 9

\* s[p..q] consists of digits only (true of the empty range)
AllDigits(s, p, q) == \A k \in p..q : s[k] \in Digits

\* the literal lit stands in s at position p
LitAt(s, p, lit) ==
    /\ p >= 1
    /\ p + Len(lit) - 1 <= Len(s)
    /\ \A k \in 1..Len(lit) : s[p + k - 1] = lit[k]

RECURSIVE ParseInt(_)
\* Python's int() of a string of decimal digits
ParseInt(s) ==
    IF Len(s) = 0 THEN 0
    ELSE 10 * ParseInt(SubSeq(s, 1, Len(s) - 1)) + DigitValue(s[Len(s)])

DotPng == <<".", "p", "n", "g">>

Png == <<"p", "n", "g">>

\* re.search('([0-9]+)\.png', name): the positions <<p, q>> of group 1 of the
\* leftmost match (the digits are greedy), or <<>> when nothing matches
SearchNumberPng(name) ==
    LET starts == {p \in 1..Len(name) :
                     \E q \in p..Len(name) :
                        AllDigits(name, p, q) /\ LitAt(name, q + 1, DotPng)}
    IN  IF starts = {} THEN <<>>
        ELSE LET p == CHOOSE x \in starts : \A y \in starts : x <= y
                 q == CHOOSE x \in p..Len(name) :
                        AllDigits(name, p, x) /\ LitAt(name, x + 1, DotPng)
             IN  <<p, q>>

\* imageSamples.extract_number
extract_number(name) ==
    LET m == SearchNumberPng(name)
    IN  IF m = <<>> THEN -1 ELSE ParseInt(SubSeq(name, m[1], m[2]))

\* re.search('([0-9]*).png', path) of main(): group 1 of the leftmost match,
\* as <<TRUE, digits>>, or <<FALSE, <<>> >> when nothing matches.  The dot is
\* unescaped and stands for any character but a newline; the digits are
\* greedy and may be none, so at each start the longest digit run that
\* leaves one such character followed by "png" is taken.
SearchDigitsAnyPng(path) ==
    LET ok(p, k) == /\ AllDigits(path, p, p + k - 1)
                    /\ p + k <= Len(path)
                    /\ path[p + k] # "\n"
                    /\ LitAt(path, p + k + 1, Png)
        starts == {p \in 1..Len(path) : \E k \in 0..(Len(path) - p) : ok(p, k)}
    IN  IF starts = {} THEN <<FALSE, <<>> >>
        ELSE LET p == CHOOSE x \in starts : \A y \in starts : x <= y
                 ks == {k \in 0..(Len(path) - p) : ok(p, k)}
                 k == CHOOSE x \in ks : \A y \in ks : x >= y
             IN  <<TRUE, SubSeq(path, p, p + k - 1)>>

RECURSIVE Zeros(_)
\* Python's '0' * n (the empty string for n <= 0)
Zeros(n) == IF n <= 0 THEN <<>> ELSE <<"0">> \o Zeros(n - 1)

\* main(): the name under which a processed frame is stored, <<TRUE, name>>,
\* or <<FALSE, <<>> >> on the "wrong format" branch
store_name_of(save_path, image_path_m) ==
    LET match_obj == SearchDigitsAnyPng(image_path_m)
    IN  IF match_obj[1]
        THEN LET digits == Len(match_obj[2])
             IN  <<TRUE, save_path \o <<"i", "m", "a", "g", "e">>
                           \o Zeros(4 - digits) \o match_obj[2] \o DotPng>>
        ELSE <<FALSE, <<>> >>

\* Python's sorted(list, key=extract_number): stable, ascending by key
SortedByNumber(list) ==
    LET key(i) == extract_number(list[i])
        rank(i) == Cardinality({j \in 1..Len(list) :
                                  \/ key(j) < key(i)
                                  \/ (key(j) = key(i) /\ j <= i)})
    IN  [r \in 1..Len(list) |-> list[CHOOSE i \in 1..Len(list) : rank(i) = r]]

\* Python's list[lo:hi] for a list of length n, as the 1-based positions
\* first..last it selects (empty when first > last); a negative index counts
\* from the end and every index is clamped to the list
SliceIndex(i, n) == IF i < 0 THEN Max(i + n, 0) ELSE Min(i, n)

PySlice(list, lo, hi) ==
    LET a == SliceIndex(lo, Len(list))
        b == SliceIndex(hi, Len(list))
    IN  SubSeq(list, a + 1, b)

(***************************************************************************)
(* The frames on disk.  A frame is named by its path; its content is what  *)
(* cv2.imread returns for that path: ImageRows x ImageCols pixels, each a   *)
(* BGR triple.  The scene is a dark table with a grey border strip at the   *)
(* right and at the bottom and an orange ball that moves with the frame     *)
(* number.                                                                  *)
(***************************************************************************)
ImageRows == 64

ImageCols == 81

Black == <<0, 0, 0>>

Grey == <<90, 90, 90>>

Orange == <<0, 140, 255>>

BallSize == 3

\* the top-left corner <<row, col>> of the ball in the frame of that path
BallAt(path) ==
    LET k == extract_number(path)
    IN  <<28 + (k % 2), 38 + (k % 3)>>

\* the pixel at <<row, col>>, rows and columns counted from 0, of a frame
\* whose ball has its corner at ball
PixelOf(ball, row, col) ==
    IF /\ row \in ball[1]..(ball[1] + BallSize - 1)
       /\ col \in ball[2]..(ball[2] + BallSize - 1)
    THEN Orange
    ELSE IF row >= ImageRows - 6 \/ col >= ImageCols - 6 THEN Grey
    ELSE Black

\* cv2.imread(path)[row, col]
Pixel(path, row, col) == PixelOf(BallAt(path), row, col)

\* an image, or a crop of one: the pixels of the file at path in the given
\* rows and columns; it is empty when either set is
Region(path, rows, cols) == [path |-> path, rows |-> rows, cols |-> cols]

IsEmptyImage(img) == img.rows = {} \/ img.cols = {}

\* motionTracker.load_image
load_image(image_path) ==
    Region(image_path, 0..(ImageRows - 1), 0..(ImageCols - 1))

\* numpy's a[lo:hi] on an axis of length n, as the set of indices selected
PyRange(lo, hi, n) == SliceIndex(lo, n)..(SliceIndex(hi, n) - 1)

\* numpy's img[r_lo:r_hi, c_lo:c_hi] of a full frame
Crop(img, r_lo, r_hi, c_lo, c_hi) ==
    Region(img.path, PyRange(r_lo, r_hi, ImageRows),
                     PyRange(c_lo, c_hi, ImageCols))

\* cv2.cvtColor(pixel, COLOR_BGR2GRAY): the 14-bit fixed-point luma
GrayOf(bgr) ==
    (bgr[1] * 1868 + bgr[2] * 9617 + bgr[3] * 4899 + 8192) \div 16384

\* a convert_to_grayscale that would accept an image without pixels
convert_to_grayscale_of_anything(img) == <<TRUE, img>>

\* motionTracker.convert_to_grayscale: cv2.cvtColor raises cv2.error
\* (-215: !_src.empty()) on an image without pixels; <<ok, image>>
convert_to_grayscale(img) == <<~IsEmptyImage(img), img>>

n_bins == 50

\* the bin (from 1) of intensity v in a histogram of n_bins bins over [0, 256)
BinOf(v) == ((v * n_bins) \div 256) + 1

\* np.histogram(gray.ravel(), bins=n_bins, range=(0, 256))[0], and the
\* values plt.hist returns: the count of pixels per bin
Histogram(gray) ==
    LET ball == BallAt(gray.path)
        binned == {<<p, BinOf(GrayOf(PixelOf(ball, p[1], p[2])))>> :
                     p \in gray.rows \X gray.cols}
    IN  [b \in 1..n_bins |-> Cardinality({q \in binned : q[2] = b})]

(***************************************************************************)
(* motionTracker: the particle filter                                      *)
(***************************************************************************)
n_states == 4

sigma_init_pos == 40

sigma_init_vel == 1

process_noise_pos_sigma == 25

process_noise_vel_sigma == 20

measurement_noise_sigma == 20

\* np.diag([a, b, c, d]) as a matrix of floats
Diag(v) ==
    [k \in 1..Len(v) |-> [m \in 1..Len(v) |-> IF k = m THEN R(v[k]) ELSE R(0)]]

\* motionTracker.compute_init_variance
P0_init ==
    Diag(<<sigma_init_pos, sigma_init_pos, sigma_init_vel, sigma_init_vel>>)

\* motionTracker.compute_process_noise_variance
V_process_noise ==
    Diag(<<process_noise_pos_sigma, process_noise_pos_sigma,
           process_noise_vel_sigma, process_noise_vel_sigma>>)

\* np.dot(A, X) of a matrix A and a matrix X with ncols columns
Dot(A, X, ncols) ==
    [k \in 1..Len(A) |->
        [i \in 1..ncols |->
            FSum([m \in 1..Len(X) |-> FMul(A[k][m], X[m][i])])]]

\* the elementwise sum of two matrices of the same shape
MatAdd(X, Y) ==
    [k \in 1..Len(X) |-> [i \in 1..Len(X[k]) |-> FAdd(X[k][i], Y[k][i])]]

\* motionTracker.get_ROI for the rectangle r = (x, y, w, h) that
\* cv2.selectROI returns, r[1..4] here for r[0..3] there.  <<ok, target_ROI>>:
\* ok is FALSE when convert_to_grayscale raises on the crop.
get_ROI(img, r) ==
    LET width == (r[2] + r[4]) - r[2]
        height == (r[1] + r[3]) - r[1]
        im_crop == Crop(img, r[2], r[2] + r[4], r[1], r[1] + r[3])
        gray == convert_to_grayscale(im_crop)
    IN  <<gray[1],
          [image_gray |-> gray[2], height |-> height, width |-> width,
           target_midpoint_x |-> FAdd(R(r[1]), FDiv(R(height), R(2))),
           target_midpoint_y |-> FAdd(R(r[2]), FDiv(R(width), R(2)))]>>

\* motionTracker.get_target_hist: target_hist['values']
get_target_hist(target_ROI_) == Histogram(target_ROI_.image_gray)

\* motionTracker.init_particles: current_state for the standard-normal
\* draws Z (n_states x n)
init_particles_state(target_ROI_, Z, n) ==
    LET mean_init == [k \in 1..n_states |->
                        [i \in 1..n |->
                            CASE k = 1 -> target_ROI_.target_midpoint_x
                              [] k = 2 -> target_ROI_.target_midpoint_y
                              [] OTHER -> R(0)]]
    IN  MatAdd(mean_init, Dot(P0_init, Z, n))

\* a propagate_particles whose transition matrix is the identity: the
\* velocity is not applied to the position
propagate_particles_at_rest(state, dt, Z, n) ==
    MatAdd(state, Dot(V_process_noise, Z, n))

\* motionTracker.propagate_particles: the new current_state
propagate_particles_state(state, dt, Z, n) ==
    LET A == [k \in 1..n_states |->
                [m \in 1..n_states |->
                    IF k = m THEN R(1)
                    ELSE IF (k = 1 /\ m = 3) \/ (k = 2 /\ m = 4) THEN dt
                    ELSE R(0)]]
    IN  MatAdd(Dot(A, state, n), Dot(V_process_noise, Z, n))

\* the box of update_particles_histograms for particle i:
\* <<x - height/2, y - width/2, x + height/2, y + width/2>>
particle_box(state, target_ROI_, i) ==
    LET hh == FDiv(R(target_ROI_.height), R(2))
        hw == FDiv(R(target_ROI_.width), R(2))
    IN  <<FSub(state[1][i], hh), FSub(state[2][i], hw),
          FAdd(state[1][i], hh), FAdd(state[2][i], hw)>>

\* the crop of update_particles_histograms for a box:
\* image_grayscale[int(box[1]):int(box[3]), int(box[0]):int(box[2])]
particle_crop(img, box) ==
    Crop(img, IntTrunc(box[2]), IntTrunc(box[4]),
              IntTrunc(box[1]), IntTrunc(box[3]))

\* motionTracker.update_particles_histograms: <<particle_boxes,
\* particle_histograms>>, both by particle
update_particles_histograms_of(img, state, target_ROI_, n) ==
    LET boxes == [i \in 1..n |-> particle_box(state, target_ROI_, i)]
    IN  <<boxes, [i \in 1..n |-> Histogram(particle_crop(img, boxes[i]))]>>

(***************************************************************************)
(* The likelihood, in the doubles numpy and scipy compute it in.           *)
(***************************************************************************)
\* the sum of the entries of a vector of naturals
RECURSIVE NSumTo(_, _)
NSumTo(h, k) == IF k = 0 THEN 0 ELSE NSumTo(h, k - 1) + h[k]

NSum(h) == NSumTo(h, Len(h))

\* the numbers of a finite set of numbers, in ascending order
Ascending(S) ==
    AsTuple([i \in 1..Cardinality(S) |->
               CHOOSE k \in S : Cardinality({j \in S : j < k}) = i - 1])

\* motionTracker.compute_hellinger_distance for one measured histogram
\* (one column of h_measured): every bin of a histogram that sums to 0 is
\* 0/0 = nan, and so is the distance; else the roots
\* sqrt(h_measured_n[k] * h_target_n[k]) are added bin after bin, as .sum
\* over axis 0 adds them, and the distance is sqrt(1 - sum), nan when the
\* rounded sum exceeds 1.  A bin that is empty in either histogram adds
\* 0.0, which leaves the sum as it is, so only the other bins are added.
compute_hellinger_distance(h_measured, h_target) ==
    LET sm == NSum(h_measured)
        st == NSum(h_target)
        bins == Ascending({k \in 1..Len(h_target) :
                             h_measured[k] > 0 /\ h_target[k] > 0})
        root(k) == DSqrt(DMul(DDiv(DOfInt(h_measured[k]), DOfInt(sm)),
                             DDiv(DOfInt(h_target[k]), DOfInt(st))))
        roots == AsTuple([i \in 1..Len(bins) |-> root(bins[i])])
    IN  IF sm = 0 \/ st = 0 THEN DNaN
        ELSE DSqrt(DSub(DOfInt(1), DSum(roots)))

\* np.pi = 0x1.921fb54442d18p+1
np_pi == <<1, <<11544, 10376, 2029, 201>>, -51>>

\* scipy's _norm_pdf_C = np.sqrt(2 * np.pi) = 0x1.40d931ff62705p+1
norm_pdf_C == <<1, <<9989, 16364, 13900, 160>>, -51>>

\* scipy's norm.pdf at the standardised x = (d - 0) / scale:
\* np.exp(-x**2 / 2.0) / _norm_pdf_C, divided by scale; nan for a nan x
norm_pdf_at(x, scale) ==
    IF DIsNaN(x) THEN DNaN
    ELSE DDiv(DDiv(DExpNeg(DDiv(DMul(x, x), DOfInt(2))), norm_pdf_C), scale)

\* scipy.stats.norm.pdf(d, 0, scale): with x = (d - 0) / scale,
\* np.exp(-x**2 / 2.0) / _norm_pdf_C / scale, and nan for a nan
norm_pdf(d, scale) == norm_pdf_at(DDiv(d, scale), scale)

\* compute_particle_betas, lines 219-220: d_hellinger, by particle
d_hellinger_of(particle_histograms_, target_values, n) ==
    AsTuple([i \in 1..n |->
               compute_hellinger_distance(particle_histograms_[i],
                                          target_values)])

\* compute_particle_betas, lines 222-223: normal_density_values
normal_density_values_of(d_hellinger_, n) ==
    LET scale == DDiv(DOfInt(1), DOfInt(measurement_noise_sigma))
    IN  AsTuple([i \in 1..n |-> norm_pdf(d_hellinger_[i], scale)])

\* compute_particle_betas, line 224: the new particle_betas; .sum adds
\* fewer than 8 values one after the other
normalised(normal_density_values_, n) ==
    LET total == DSum(normal_density_values_)
    IN  AsTuple([i \in 1..n |-> DDiv(normal_density_values_[i], total)])

\* motionTracker.compute_particle_betas: the new particle_betas
compute_particle_betas_of(particle_histograms_, target_values, n) ==
    normalised(normal_density_values_of(
                   d_hellinger_of(particle_histograms_, target_values, n), n),
               n)

\* np.cumsum of a vector of floats
cumsum(v) == AsTuple([j \in 1..Len(v) |-> DSumTo(v, j)])

\* resample_particles, line 246: res[0][0] if res[0].size > 0 else 0, as a
\* particle number from 1
first_index(res) ==
    IF res # {} THEN CHOOSE j \in res : \A m \in res : j <= m ELSE 1

\* resample_particles, lines 245-246: the index (from 1) selected for the
\* uniform draw randuni: the first j with randuni <= beta_cumsum[j], and the
\* first particle when there is none
select_index(randuni, beta_cumsum) ==
    first_index({j \in 1..Len(beta_cumsum) : DLe(randuni, beta_cumsum[j])})

\* resample_particles: the list index_selected for the draws
index_selected_of(particle_betas_, draws) ==
    LET beta_cumsum == cumsum(particle_betas_)
    IN  [i \in 1..Len(draws) |-> select_index(draws[i], beta_cumsum)]

\* resample_particles, line 248: slot i of every row of current_state is
\* overwritten with column index_selected[i] of the copy source
resample_copy(source, index_selected_) ==
    [k \in 1..Len(source) |->
        [i \in 1..Len(index_selected_) |-> source[k][index_selected_[i]]]]

RECURSIVE overwrite_in_place(_, _, _)
\* slots i.. of state overwritten one after the other, each from the state
\* as the slots before it left it
overwrite_in_place(state, index_selected_, i) ==
    IF i > Len(index_selected_) THEN state
    ELSE overwrite_in_place(
             [k \in 1..Len(state) |->
                 [state[k] EXCEPT ![i] = state[k][index_selected_[i]]]],
             index_selected_, i + 1)

\* a resample_particles without the copy of line 240: every slot is read
\* from the array that is being overwritten
resample_particles_without_copy(state, particle_betas_, draws) ==
    overwrite_in_place(state, index_selected_of(particle_betas_, draws), 1)

\* motionTracker.resample_particles: the new current_state; the copy made on
\* line 240 is the source of every slot
resample_particles_state(state, particle_betas_, draws) ==
    LET current_state_prior == state
    IN  resample_copy(current_state_prior,
                      index_selected_of(particle_betas_, draws))

\* a mean that divides by the number of rows instead of the number of
\* particles
state_mean_over_rows(state, n) ==
    [k \in 1..Len(state) |-> FDiv(FSum(state[k]), R(Len(state)))]

\* current_state.mean(axis=1) of compute_MMSE_estimate
state_mean(state, n) ==
    [k \in 1..Len(state) |-> FDiv(FSum(state[k]), R(n))]

\* motionTracker.compute_MMSE_estimate: <<mmse_estimate, mmse_estimate_box>>
compute_MMSE_estimate_of(state, target_ROI_, n) ==
    LET est == state_mean(state, n)
        hh == FDiv(R(target_ROI_.height), R(2))
        hw == FDiv(R(target_ROI_.width), R(2))
    IN  <<est, <<FSub(est[1], hh), FSub(est[2], hw),
                 FAdd(est[1], hh), FAdd(est[2], hw)>> >>

(***************************************************************************)
(* motionTracker.track_ball_hough, lines 62-93                             *)
(***************************************************************************)
PINGPONG_DIAMETER_CM == 4

\* np.zeros((frames_to_process, 1, w)): one row of w zeros per frame
ZeroRows(frames_to_process, w) ==
    [f \in 1..frames_to_process |-> [c \in 1..w |-> R(0)]]

RECURSIVE select_circle(_, _, _, _, _)
\* the loop of lines 77-82 from circle i on: <<new_pos, radius>> after it.
\* min_distance is tested and never assigned, so it is -1 throughout.
select_circle(circles, i, target_radius, min_distance, acc) ==
    IF i > Len(circles) THEN acc
    ELSE LET circle == circles[i]
             take == \/ min_distance < 0
                     \/ FLt(<<Abs(circle[3][1] - target_radius * circle[3][2]),
                              circle[3][2]>>, R(min_distance))
         IN  select_circle(circles, i + 1, target_radius, min_distance,
                           IF take THEN <<<<circle[1], circle[2]>>, circle[3]>>
                           ELSE acc)

\* lines 86-90: the velocity (new_pos - prev) / dt * cm_per_pixel in
\* doubles, for a radius above 0; cm_per_pixel is rounded before the
\* product is.  The positions, the radius and dt are floats given as
\* <<n, d>>, and n / d in doubles is the float (an infinity or nan for
\* d = 0).
ball_velocity(new_pos, prev, dt, radius) ==
    LET cm_per_pixel == DDiv(DOfInt(PINGPONG_DIAMETER_CM),
                             DMul(DOfInt(2),
                                  DDiv(DOfInt(radius[1]), DOfInt(radius[2]))))
    IN  AsTuple([c \in 1..2 |->
            DMul(DDiv(DSub(DDiv(DOfInt(new_pos[c][1]), DOfInt(new_pos[c][2])),
                           DDiv(DOfInt(prev[c][1]), DOfInt(prev[c][2]))),
                      DDiv(DOfInt(dt[1]), DOfInt(dt[2]))),
                 cm_per_pixel)])

\* lines 62-104 of track_ball_hough for the detector's answer circles (<<>>
\* for None) on call number frame_count_ (from 0), as a record of the rows
\* written for this frame (centers, radii and vels are ball_center,
\* ball_radius and ball_center_vel before the call) and of the circles
\* drawn into tracker.image, of which cimg is another name (lines 64 and
\* 102-104); ok is FALSE when line 87 raises TypeError (a float times
\* None), and then only ball_radius has been written.
track_ball_hough_of(circles, frame_count_, centers, radii, vels, target_radius, dt) ==
    LET f == frame_count_ + 1
        prev == IF frame_count_ > 0 THEN centers[f - 1]
                ELSE <<R(0), R(0)>>
        sel == select_circle(circles, 1, target_radius, -1,
                             <<prev, radii[f][1]>>)
        new_pos == sel[1]
        radius == sel[2]
        has_cm == FLt(R(0), radius)
    IN  IF circles = <<>>
        THEN [ok |-> TRUE, center |-> centers[f],
              radius |-> radii[f], vel |-> vels[f], drawn |-> <<>>]
        ELSE IF frame_count_ > 0 /\ ~has_cm
        THEN [ok |-> FALSE, center |-> centers[f],
              radius |-> <<radius>>, vel |-> vels[f], drawn |-> <<>>]
        ELSE [ok |-> TRUE, center |-> new_pos, radius |-> <<radius>>,
              vel |-> IF frame_count_ > 0
                      THEN ball_velocity(new_pos, prev, dt, radius)
                      ELSE vels[f],
              drawn |-> circles]

(***************************************************************************)
(* The inputs: the command line, the frame folder, the rectangle the user  *)
(* selects, the detector's circles and the random draws                    *)
(***************************************************************************)
None == <<>>

NParticles == 2

FolderPath == <<"f">>

\* glob's name for the file stem + '.png' of the frame folder
FramePath(stem) == FolderPath \o <<"/">> \o stem \o DotPng

\* what glob.glob may list (in the order it lists it): a folder of numbered
\* frames, and one that also holds frames without a number
FolderListings ==
    { <<FramePath(<<"3">>), FramePath(<<"1">>), FramePath(<<"1", "0">>),
        FramePath(<<"2">>)>>,
      <<FramePath(<<"2">>), FramePath(<<"a">>), FramePath(<<"1">>),
        FramePath(<<"b">>), FramePath(<<"c">>)>> }

\* timestamps.json: pkt_pts_time of the frames, one per file
Timestamps == <<0, 1, 3, 4, 6, 7>>

ArgChoices ==
    [method : {"particle", "hough", "other"}, start_image : {1, 2},
     end_image : {-1, 3}, frame_period : {None, R(2)},
     save_frames : {TRUE}, n_particle : {NParticles},
     target_radius : {26, -6}]

\* the rectangles (x, y, w, h) cv2.selectROI may return: the ball with a
\* margin, a rectangle of odd width, and rectangles without width or height
ROIChoices == {<<38, 28, 4, 4>>, <<37, 28, 5, 4>>, <<38, 28, 0, 4>>,
               <<38, 28, 4, 0>>, <<0, 0, 0, 0>>}

\* standard-normal draws, by particle: <<z_x, z_y, z_vx, z_vy>>
ZColumns == << <<0, 0, 0, 0>>, <<1, -1, 1, 0>>, <<-1, 1, 0, 1>> >>

\* the matrices np.random.normal(size=(n_states, n)) may return here
NormalDraws(n) ==
    {[k \in 1..n_states |->
        [i \in 1..n |-> R(ZColumns[((s + i - 2) % Len(ZColumns)) + 1][k])]] :
       s \in 1..Len(ZColumns)}

\* 0.0, 0.5 and 0.9 = 0x1.ccccccccccccdp-1
UniformValues ==
    <<DZero, <<1, <<0, 0, 0, 128>>, -53>>,
      <<1, <<19661, 6553, 13107, 230>>, -53>> >>

\* the n values successive calls of np.random.uniform() may return here
UniformDraws(n) ==
    {[i \in 1..n |-> UniformValues[((s + i - 2) % Len(UniformValues)) + 1]] :
       s \in 1..Len(UniformValues)}

Circle(x, y, r) == <<R(x), R(y), R(r)>>

\* what cv2.HoughCircles may return (circles[0, :], <<>> for None): radii
\* within 5 of target_radius, or centres with radius 0 when the radius
\* window is negative (maxRadius < 0)
CircleChoices(target_radius) ==
    IF target_radius + 5 < 0
    THEN { <<>>, <<Circle(44, 30, 0)>> }
    ELSE { <<>>,
           <<Circle(40, 30, target_radius)>>,
           <<Circle(40, 30, target_radius), Circle(60, 20, target_radius + 3)>>,
           <<Circle(60, 20, target_radius + 3), Circle(40, 30, target_radius)>>,
           <<Circle(10, 12, target_radius), Circle(44, 30, target_radius)>> }

(***************************************************************************)
(* The state of a run of main()                                            *)
(***************************************************************************)
VARIABLES
    pc,                 \* where main() is: the call to make next
    args,               \* the parsed command line
    glob_list,          \* what glob.glob lists for the frame folder
    image_dt_list,      \* images.image_dt_list: <<path, dt>> pairs
    considered_list,    \* main's considered_list
    frames_done,        \* how many items of considered_list the loop has taken
    store_name,         \* main's store_name for the frame in hand
    printed,            \* what main has printed: <<kind, path>>
    saved,              \* the files written under processed/
    calls,              \* the tracker methods main has called: <<method, path>>
    image_path,         \* tracker.image_path; tracker.image is its content
                        \* with the circles of image_drawn drawn into it
    r_selected,         \* the rectangle cv2.selectROI returned in get_ROI
    target_ROI,         \* tracker.target_ROI
    target_hist,        \* tracker.target_hist['values']
    current_state,      \* tracker.current_state, n_states x n_particles
    particle_boxes,     \* tracker.particle_boxes, by particle
    particle_histograms,\* tracker.particle_histograms, by particle
    particle_betas,     \* tracker.particle_betas
    d_hellinger,        \* d_hellinger and normal_density_values of the last
    normal_density_values,  \* compute_particle_betas call
    mmse_estimate,      \* tracker.mmse_estimate
    mmse_estimate_box,  \* tracker.mmse_estimate_box
    resample_locals,    \* current_state_prior, the draws and index_selected
                        \* of the last resample_particles call
    noise,              \* the last np.random.normal matrix and the state and
                        \* dt it was applied to
    frame_count,        \* tracker.frame_count
    ball_center,        \* tracker.ball_center
    ball_radius,        \* tracker.ball_radius
    ball_center_vel,    \* tracker.ball_center_vel
    circles_seen,       \* what cv2.HoughCircles returned, by call
    image_drawn         \* the circles cv2.circle has drawn into
                        \* tracker.image since it was loaded

mainVars == <<args, glob_list, image_dt_list, considered_list>>

loopVars == <<frames_done, store_name, printed>>

betaVars == <<particle_betas, d_hellinger, normal_density_values>>

filterVars == <<r_selected, target_ROI, target_hist, current_state, particle_boxes,
                particle_histograms, betaVars, mmse_estimate,
                mmse_estimate_box, resample_locals, noise>>

houghVars == <<frame_count, ball_center, ball_radius, ball_center_vel,
               circles_seen, image_drawn>>

vars == <<pc, mainVars, loopVars, saved, calls, image_path, filterVars,
          houghVars>>

Unset == [set |-> FALSE]

Init ==
    /\ pc = "imageSamples"
    /\ args \in {a \in ArgChoices :
                   a.method # "hough" => a.target_radius = 26}
    /\ glob_list \in FolderListings
    /\ image_dt_list = <<>>
    /\ considered_list = <<>>
    /\ frames_done = 0
    /\ store_name = <<>>
    /\ printed = <<>>
    /\ saved = <<>>
    /\ calls = <<>>
    /\ image_path = <<>>
    /\ r_selected = <<>>
    /\ target_ROI = Unset
    /\ target_hist = <<>>
    /\ current_state = <<>>
    /\ particle_boxes = <<>>
    /\ particle_histograms = <<>>
    /\ particle_betas = <<>>
    /\ d_hellinger = <<>>
    /\ normal_density_values = <<>>
    /\ mmse_estimate = <<>>
    /\ mmse_estimate_box = <<>>
    /\ resample_locals = Unset
    /\ noise = Unset
    /\ frame_count = -1
    /\ ball_center = <<>>
    /\ ball_radius = <<>>
    /\ ball_center_vel = <<>>
    /\ circles_seen = <<>>
    /\ image_drawn = <<>>

(***************************************************************************)
(* imageSamples and main()                                                 *)
(***************************************************************************)
\* imageSamples.read_timestamps: self.dt, a 0.0 followed by the differences
read_timestamps ==
    [i \in 1..Len(Timestamps) |->
        IF i = 1 THEN R(0) ELSE R(Timestamps[i] - Timestamps[i - 1])]

\* imageSamples.__init__: image_dt_list for the listing and --frame_period
\* (zip stops at the shorter of the two lists)
imageSamples_init(listing, frame_period) ==
    LET framelist == SortedByNumber(listing)
        dt == IF frame_period = None \/ frame_period = R(0)
              THEN read_timestamps
              ELSE [i \in 1..Len(framelist) |-> frame_period]
    IN  [i \in 1..Min(Len(framelist), Len(dt)) |-> <<framelist[i], dt[i]>>]

\* main(), lines 403-406
considered_list_of(list, start_image, end_image) ==
    IF end_image < 0 THEN PySlice(list, start_image + 1, Len(list))
    ELSE PySlice(list, start_image + 1, end_image + 1)

\* main(), line 399
save_path == FolderPath \o <<"/", "p", "r", "o", "c", "e", "s", "s", "e", "d", "/">>

\* an update_particles that resamples before the weights are computed
update_particles_resampling_first ==
    <<"update_particles_histograms", "resample_particles",
      "compute_particle_betas", "compute_MMSE_estimate">>

\* motionTracker.update_particles: the calls it makes, in order
update_particles ==
    <<"update_particles_histograms", "compute_particle_betas",
      "resample_particles", "compute_MMSE_estimate">>

\* main(), lines 428-432: the calls made for a frame with --method particle
particle_frame ==
    <<"propagate_particles">> \o update_particles
        \o <<"generate_processed_frame">>

\* the call that follows call c for the frame in hand; the loop head after
\* the last
AfterCall(c) ==
    LET i == CHOOSE j \in 1..Len(particle_frame) : particle_frame[j] = c
    IN  IF i = Len(particle_frame) THEN "loop" ELSE particle_frame[i + 1]

\* Python's list[i] for an index in range: a negative index counts from the
\* end
PyItem(list, i) == list[IF i < 0 THEN i + Len(list) + 1 ELSE i + 1]

\* whether list[i] raises IndexError
PyInRange(list, i) == -Len(list) <= i /\ i < Len(list)

\* the frame in hand: the item of considered_list the loop took last
Item == considered_list[frames_done]

\* main(), lines 396-408: the frames are enumerated and the list to process
\* is cut out
main_enumerate ==
    /\ pc = "imageSamples"
    /\ image_dt_list' = imageSamples_init(glob_list, args.frame_period)
    /\ considered_list' = considered_list_of(image_dt_list', args.start_image,
                                             args.end_image)
    /\ pc' = "motionTracker"
    /\ UNCHANGED <<args, glob_list, loopVars, saved, calls, image_path,
                   filterVars, houghVars>>

\* motionTracker.__init__ as main() calls it, lines 410-413, for --method
\* particle: the frame is loaded, the user selects the rectangle, the target
\* histogram is built and the particles are drawn.  cv2.error on an empty
\* crop leaves main() with the exception.
motionTracker_init_particle ==
    /\ pc = "motionTracker"
    /\ args.method = "particle"
    /\ PyInRange(image_dt_list, args.start_image)
    /\ \E r \in ROIChoices, Z \in NormalDraws(args.n_particle) :
         LET path == PyItem(image_dt_list, args.start_image)[1]
             n == args.n_particle
             roi == get_ROI(load_image(path), r)
             state == init_particles_state(roi[2], Z, n)
             mmse == compute_MMSE_estimate_of(state, roi[2], n)
         IN  /\ image_path' = path
             /\ r_selected' = r
             /\ ball_center' = ZeroRows(Len(considered_list), 2)
             /\ ball_radius' = ZeroRows(Len(considered_list), 1)
             /\ ball_center_vel' =
                    [f \in 1..Len(considered_list) |-> <<DZero, DZero>>]
             /\ frame_count' = -1
             /\ image_drawn' = <<>>
             /\ IF roi[1]
                THEN /\ target_ROI' = roi[2]
                     /\ target_hist' = get_target_hist(roi[2])
                     /\ current_state' = state
                     /\ particle_boxes' = [i \in 1..n |-> <<R(0), R(0), R(0), R(0)>>]
                     /\ particle_histograms' =
                            [i \in 1..n |-> [b \in 1..n_bins |-> 0]]
                     /\ particle_betas' =
                            [i \in 1..n |-> DDiv(DOfInt(1), DOfInt(n))]
                     /\ UNCHANGED <<d_hellinger, normal_density_values>>
                     /\ mmse_estimate' = mmse[1]
                     /\ mmse_estimate_box' = mmse[2]
                     /\ noise' = [set |-> TRUE, Z |-> Z, call |-> "init_particles"]
                     /\ pc' = "loop"
                ELSE /\ pc' = "fault"
                     /\ UNCHANGED <<target_ROI, target_hist, current_state,
                                    particle_boxes, particle_histograms,
                                    betaVars, mmse_estimate,
                                    mmse_estimate_box, noise>>
    /\ UNCHANGED <<mainVars, loopVars, saved, calls, resample_locals,
                   circles_seen>>

\* motionTracker.__init__ for --method hough: only the frame and the
\* trajectory buffers
motionTracker_init_hough ==
    /\ pc = "motionTracker"
    /\ args.method # "particle"
    /\ PyInRange(image_dt_list, args.start_image)
    /\ image_path' = PyItem(image_dt_list, args.start_image)[1]
    /\ ball_center' = ZeroRows(Len(considered_list), 2)
    /\ ball_radius' = ZeroRows(Len(considered_list), 1)
    /\ ball_center_vel' = [f \in 1..Len(considered_list) |-> <<DZero, DZero>>]
    /\ frame_count' = -1
    /\ image_drawn' = <<>>
    /\ pc' = "loop"
    /\ UNCHANGED <<mainVars, loopVars, saved, calls, filterVars, circles_seen>>

\* main(), line 424: the line printed before a frame is processed
Processing(image_path_m) == <<"Processing image", image_path_m>>

\* main(), line 439: the line printed after the calls made for a frame
time_dt == <<"time_dt", <<>> >>

\* main(), lines 415-427, 433 and 438-440: the loop takes the next item,
\* derives store_name from its path or prints the error and returns, and
\* hands the frame to the tracker (get_new_image); with a --method that is
\* neither particle nor hough nothing is called and the frame is over
loop_next_frame ==
    /\ pc = "loop"
    /\ frames_done < Len(considered_list)
    /\ LET image_path_m == considered_list[frames_done + 1][1]
           name == store_name_of(save_path, image_path_m)
       IN  IF name[1]
           THEN /\ store_name' = name[2]
                /\ image_path' = image_path_m
                /\ image_drawn' = <<>>
                /\ IF args.method \in {"particle", "hough"}
                   THEN /\ printed' = Append(printed, Processing(image_path_m))
                        /\ pc' = IF args.method = "particle"
                                 THEN particle_frame[1]
                                 ELSE "track_ball_hough"
                   ELSE /\ printed' = Append(Append(printed,
                                                   Processing(image_path_m)),
                                            time_dt)
                        /\ pc' = "loop"
           ELSE /\ printed' = Append(printed, <<"Error", image_path_m>>)
                /\ pc' = "returned"
                /\ UNCHANGED <<store_name, image_path, image_drawn>>
    /\ frames_done' = frames_done + 1
    /\ UNCHANGED <<mainVars, saved, calls, filterVars, frame_count,
                   ball_center, ball_radius, ball_center_vel, circles_seen>>

\* main(), line 442: the list is exhausted
loop_end ==
    /\ pc = "loop"
    /\ frames_done = Len(considered_list)
    /\ printed' = Append(printed, <<"Mean computation time per frame", <<>> >>)
    /\ pc' = "done"
    /\ UNCHANGED <<mainVars, frames_done, store_name, saved, calls, image_path,
                   filterVars, houghVars>>

(***************************************************************************)
(* The calls main() makes on the tracker for a frame                       *)
(***************************************************************************)
\* the record of a call of a tracker method on the frame in hand
Called(method) == Append(calls, <<method, image_path>>)

\* motionTracker.propagate_particles(dt)
propagate_particles ==
    /\ pc = "propagate_particles"
    /\ \E Z \in NormalDraws(args.n_particle) :
         /\ current_state' = propagate_particles_state(current_state, Item[2],
                                                       Z, args.n_particle)
         /\ noise' = [set |-> TRUE, Z |-> Z, call |-> "propagate_particles",
                      state |-> current_state, dt |-> Item[2],
                      mmse_estimate |-> mmse_estimate]
    /\ calls' = Called("propagate_particles")
    /\ pc' = AfterCall("propagate_particles")
    /\ UNCHANGED <<mainVars, loopVars, saved, image_path, r_selected, target_ROI,
                   target_hist, particle_boxes, particle_histograms,
                   betaVars, mmse_estimate, mmse_estimate_box,
                   resample_locals, houghVars>>

\* motionTracker.update_particles_histograms
update_particles_histograms ==
    /\ pc = "update_particles_histograms"
    /\ LET new == update_particles_histograms_of(load_image(image_path),
                      current_state, target_ROI, args.n_particle)
       IN  /\ particle_boxes' = new[1]
           /\ particle_histograms' = new[2]
    /\ calls' = Called("update_particles_histograms")
    /\ pc' = AfterCall("update_particles_histograms")
    /\ UNCHANGED <<mainVars, loopVars, saved, image_path, r_selected, target_ROI,
                   target_hist, current_state, betaVars, mmse_estimate,
                   mmse_estimate_box, resample_locals, noise, houghVars>>

\* motionTracker.compute_particle_betas
compute_particle_betas ==
    /\ pc = "compute_particle_betas"
    /\ d_hellinger' = d_hellinger_of(particle_histograms, target_hist,
                                     args.n_particle)
    /\ normal_density_values' =
           normal_density_values_of(d_hellinger', args.n_particle)
    /\ particle_betas' = normalised(normal_density_values', args.n_particle)
    /\ calls' = Called("compute_particle_betas")
    /\ pc' = AfterCall("compute_particle_betas")
    /\ UNCHANGED <<mainVars, loopVars, saved, image_path, r_selected, target_ROI,
                   target_hist, current_state, particle_boxes,
                   particle_histograms, mmse_estimate, mmse_estimate_box,
                   resample_locals, noise, houghVars>>

\* motionTracker.resample_particles
resample_particles ==
    /\ pc = "resample_particles"
    /\ \E draws \in UniformDraws(args.n_particle) :
         /\ current_state' = resample_particles_state(current_state,
                                                      particle_betas, draws)
         /\ resample_locals' =
                [set |-> TRUE, current_state_prior |-> current_state,
                 randuni |-> draws,
                 index_selected |-> index_selected_of(particle_betas, draws)]
    /\ calls' = Called("resample_particles")
    /\ pc' = AfterCall("resample_particles")
    /\ UNCHANGED <<mainVars, loopVars, saved, image_path, r_selected, target_ROI,
                   target_hist, particle_boxes, particle_histograms,
                   betaVars, mmse_estimate, mmse_estimate_box, noise,
                   houghVars>>

\* motionTracker.compute_MMSE_estimate
compute_MMSE_estimate ==
    /\ pc = "compute_MMSE_estimate"
    /\ LET mmse == compute_MMSE_estimate_of(current_state, target_ROI,
                                            args.n_particle)
       IN  /\ mmse_estimate' = mmse[1]
           /\ mmse_estimate_box' = mmse[2]
    /\ calls' = Called("compute_MMSE_estimate")
    /\ pc' = AfterCall("compute_MMSE_estimate")
    /\ UNCHANGED <<mainVars, loopVars, saved, image_path, r_selected, target_ROI,
                   target_hist, current_state, particle_boxes,
                   particle_histograms, betaVars, resample_locals,
                   noise, houghVars>>

\* motionTracker.generate_processed_frame: the frame with the particles and
\* the estimate drawn on it is written to store_name; main() then prints the
\* time the frame took (line 439)
generate_processed_frame ==
    /\ pc = "generate_processed_frame"
    /\ saved' = IF args.save_frames THEN Append(saved, store_name) ELSE saved
    /\ printed' = Append(printed, time_dt)
    /\ pc' = AfterCall("generate_processed_frame")
    /\ UNCHANGED <<mainVars, frames_done, store_name, calls, image_path,
                   filterVars, houghVars>>

\* motionTracker.track_ball_hough, with what cv2.HoughCircles returns for
\* the frame; TypeError on line 87 leaves main() with the exception;
\* otherwise main() prints the time the frame took (line 439)
track_ball_hough ==
    /\ pc = "track_ball_hough"
    /\ \E circles \in CircleChoices(args.target_radius) :
         LET new == track_ball_hough_of(circles, frame_count + 1, ball_center,
                        ball_radius, ball_center_vel, args.target_radius,
                        Item[2])
             f == frame_count + 2
         IN  /\ circles_seen' = Append(circles_seen, circles)
             /\ ball_center' = [ball_center EXCEPT ![f] = new.center]
             /\ ball_radius' = [ball_radius EXCEPT ![f] = new.radius]
             /\ ball_center_vel' = [ball_center_vel EXCEPT ![f] = new.vel]
             /\ image_drawn' = image_drawn \o new.drawn
             /\ pc' = IF new.ok THEN "loop" ELSE "fault"
             /\ saved' = IF new.ok /\ args.save_frames
                         THEN Append(saved, store_name) ELSE saved
             /\ printed' = IF new.ok THEN Append(printed, time_dt)
                           ELSE printed
    /\ frame_count' = frame_count + 1
    /\ calls' = Called("track_ball_hough")
    /\ UNCHANGED <<mainVars, frames_done, store_name, image_path,
                   filterVars>>

Next ==
    \/ main_enumerate
    \/ motionTracker_init_particle
    \/ motionTracker_init_hough
    \/ loop_next_frame
    \/ loop_end
    \/ propagate_particles
    \/ update_particles_histograms
    \/ compute_particle_betas
    \/ resample_particles
    \/ compute_MMSE_estimate
    \/ generate_processed_frame
    \/ track_ball_hough

Spec == Init /\ [][Next]_vars

(***************************************************************************)
(* What the claims say, settled against the model                          *)
(***************************************************************************)
LastCall == IF calls = <<>> THEN "" ELSE calls[Len(calls)][1]

\* the five stages of the particle-filter path, in the order claimed
C1_Stages ==
    <<"propagate_particles", "update_particles_histograms",
      "compute_particle_betas", "resample_particles", "compute_MMSE_estimate">>

\* C1: with --method particle the calls made on the tracker are, frame after
\* frame of a contiguous stretch of the sorted frame list, the five stages
\* propagate_particles, update_particles_histograms, compute_particle_betas,
\* resample_particles, compute_MMSE_estimate, once each and in that order;
\* whenever the loop is between frames every frame taken has had all five.
C1_StagesOncePerFrameInOrder ==
    args.method = "particle" =>
        /\ \E off \in 0..Len(image_dt_list) :
             \A i \in 1..Len(calls) :
                LET frame == ((i - 1) \div 5) + 1
                    stage == ((i - 1) % 5) + 1
                IN  /\ off + frame <= Len(image_dt_list)
                    /\ frame <= frames_done
                    /\ calls[i] = <<C1_Stages[stage],
                                    image_dt_list[off + frame][1]>>
        /\ pc \in {"loop", "done"} => Len(calls) = 5 * frames_done

\* C1's case: a run that has processed at least two frames to the end
C1_Witness ==
    /\ args.method = "particle"
    /\ pc = "done"
    /\ frames_done >= 2
    /\ Len(calls) = 5 * frames_done

\* C2's ancestor of slot i: the smallest index whose cumulative weight is at
\* least the slot's draw, the first particle when there is none
C2_Ancestor(i) ==
    LET u == resample_locals.randuni[i]
        reach == {j \in 1..Len(particle_betas) :
                    DLe(u, DSumTo(particle_betas, j))}
    IN  IF reach = {} THEN 1
        ELSE CHOOSE j \in reach : \A m \in reach : j <= m

\* C2: right after resample_particles the population still has n_particle
\* particles, and every slot holds, in all its components, the state that
\* its ancestor had before the resampling began.
C2_ResampleCopiesAncestors ==
    LastCall = "resample_particles" =>
        \A k \in 1..n_states :
            /\ Len(current_state[k]) = args.n_particle
            /\ \A i \in 1..args.n_particle :
                 current_state[k][i] =
                    resample_locals.current_state_prior[k][C2_Ancestor(i)]

\* C2's case: a resampling in which a later slot takes an earlier slot's
\* ancestor state and an earlier slot takes a later one's, the two differing
C2_Witness ==
    /\ LastCall = "resample_particles"
    /\ resample_locals.index_selected[1] = 2
    /\ resample_locals.index_selected[2] = 1
    /\ \E k \in 1..n_states :
         resample_locals.current_state_prior[k][1]
            # resample_locals.current_state_prior[k][2]

\* C2's second case: no cumulative weight reaches the draw (the weights are
\* nan) and the first particle is copied into every slot
C2_WitnessFallback ==
    /\ LastCall = "resample_particles"
    /\ \A i \in 1..args.n_particle : DIsNaN(particle_betas[i])
    /\ \A i \in 1..args.n_particle : resample_locals.index_selected[i] = 1

\* 2^-40: what the sum of a few doubles that add up to 1 may be off by
SumTolerance == <<1, <<0, 0, 0, 128>>, -92>>

\* x is neither nan nor an infinity
DIsFinite(x) == x = DZero \/ x[2] # <<>>

\* abs(x)
DAbs(x) == IF x[1] < 0 THEN DNeg(x) ELSE x

\* the sum of the weights w is 1, but for the rounding of the sum
SumsToOne(w) ==
    LET err == DSub(DSum(w), DOfInt(1))
    IN  DIsFinite(err) /\ DLe(DAbs(err), SumTolerance)

\* the weights w are finite, none is negative and they sum to 1
ProperWeights(w) ==
    /\ \A k \in 1..Len(w) : DIsFinite(w[k]) /\ DLe(DZero, w[k])
    /\ SumsToOne(w)

\* C3: right after compute_particle_betas every weight is finite and
\* non-negative and the weights sum to 1 (uniform when the densities cannot
\* be normalised).
C3_WeightsNormalised ==
    LastCall = "compute_particle_betas" => ProperWeights(particle_betas)

\* the pixels of the frame that lie in the box of particle i
C4_BoxInFrame(i) ==
    LET box == particle_boxes[i]
    IN  Region(image_path,
               {r \in 0..(ImageRows - 1) :
                  IntTrunc(box[2]) <= r /\ r < IntTrunc(box[4])},
               {c \in 0..(ImageCols - 1) :
                  IntTrunc(box[1]) <= c /\ c < IntTrunc(box[3])})

\* C4: wherever a particle lies, its histogram is that of the pixels its box
\* shares with the frame (all-zero when it shares none), and a particle
\* whose box shares no pixel with the frame gets a defined distance and
\* leaves every weight defined.
C4_HistogramOfBoxInFrame ==
    /\ LastCall = "update_particles_histograms" =>
          \A i \in 1..args.n_particle :
              particle_histograms[i] = Histogram(C4_BoxInFrame(i))
    /\ LastCall = "compute_particle_betas" =>
          \A i \in 1..args.n_particle :
              DIsFinite(d_hellinger[i]) /\ DIsFinite(particle_betas[i])

\* the row of the trajectory buffers written by the last track_ball_hough
HoughRow == frame_count + 1

\* the last non-empty answer of the detector before call f, 0 if none
LastDetection(f) ==
    LET seen == {g \in 1..(f - 1) : circles_seen[g] # <<>>}
    IN  IF seen = {} THEN 0 ELSE CHOOSE g \in seen : \A h \in seen : g >= h

\* C5: when the detector returns nothing for a frame after the first, the
\* call ends without an error and the position and velocity recorded for
\* the frame are those recorded for the frame before; and the velocity of a
\* later detection is the difference from the last known position.
C5_HoldOnNoDetection ==
    (LastCall = "track_ball_hough" /\ frame_count >= 1) =>
        IF circles_seen[HoughRow] = <<>>
        THEN /\ pc # "fault"
             /\ ball_center[HoughRow] = ball_center[HoughRow - 1]
             /\ ball_center_vel[HoughRow] = ball_center_vel[HoughRow - 1]
        ELSE (pc # "fault" /\ LastDetection(HoughRow) > 0) =>
                ball_center_vel[HoughRow] =
                    ball_velocity(ball_center[HoughRow],
                                  ball_center[LastDetection(HoughRow)],
                                  Item[2], ball_radius[HoughRow][1])

\* |r - target_radius| of a circle
RadiusError(circle) ==
    LET e == FSub(circle[3], R(args.target_radius))
    IN  IF e[1] < 0 THEN FNeg(e) ELSE e

\* the squared distance of a circle's centre from a position
SquaredDistance(circle, pos) ==
    FAdd(FMul(FSub(circle[1], pos[1]), FSub(circle[1], pos[1])),
         FMul(FSub(circle[2], pos[2]), FSub(circle[2], pos[2])))

\* C6: the circle recorded for a frame is one whose radius is closest to
\* target_radius among the circles detected, whatever their order, and
\* among equally close ones the one nearest the previous known position.
C6_ClosestRadiusChosen ==
    (LastCall = "track_ball_hough" /\ pc # "fault"
        /\ circles_seen[HoughRow] # <<>>) =>
        LET circles == circles_seen[HoughRow]
            all == {circles[i] : i \in 1..Len(circles)}
            closest == {c \in all :
                          \A o \in all : FLe(RadiusError(c), RadiusError(o))}
            prev == IF HoughRow > 1 THEN ball_center[HoughRow - 1]
                    ELSE <<R(0), R(0)>>
            nearest == IF HoughRow > 1
                       THEN {c \in closest :
                               \A o \in closest :
                                  FLe(SquaredDistance(c, prev),
                                      SquaredDistance(o, prev))}
                       ELSE closest
        IN  \E c \in nearest :
               /\ ball_center[HoughRow] = <<c[1], c[2]>>
               /\ ball_radius[HoughRow] = <<c[3]>>

\* C7: when the circle measured on a frame after the first has radius zero,
\* the call ends without a fault and records no velocity that is not a
\* finite number.
C7_ZeroRadiusIsMissingMeasurement ==
    (LastCall = "track_ball_hough" /\ frame_count >= 1
        /\ circles_seen[HoughRow] # <<>>
        /\ ball_radius[HoughRow] = <<R(0)>>) =>
        /\ pc # "fault"
        /\ \A c \in 1..2 : DIsFinite(ball_center_vel[HoughRow][c])

\* the rectangle selected has no width or no height
DegenerateROI == r_selected # <<>> /\ (r_selected[3] = 0 \/ r_selected[4] = 0)

\* C8: once a rectangle without width or height has been selected, the
\* construction has failed: no target histogram is built, no particle is
\* drawn, and the loop over the frames is never entered.
C8_DegenerateROIRejected ==
    DegenerateROI =>
        /\ pc = "fault"
        /\ target_ROI = Unset
        /\ target_hist = <<>>
        /\ current_state = <<>>
        /\ frames_done = 0
        /\ calls = <<>>

\* C8's case: a rectangle without width, or without height, was selected
C8_Witness ==
    /\ DegenerateROI
    /\ r_selected[3] + r_selected[4] > 0
    /\ pc = "fault"

\* mmse_estimate is the mean of the particles and mmse_estimate_box the box
\* of the selected rectangle's size around it
C9_EstimateIsMean ==
    /\ \A k \in 1..n_states :
         FMul(mmse_estimate[k], R(args.n_particle)) = FSum(current_state[k])
    /\ FSub(mmse_estimate_box[3], mmse_estimate_box[1]) = R(r_selected[3])
    /\ FSub(mmse_estimate_box[4], mmse_estimate_box[2]) = R(r_selected[4])
    /\ FAdd(mmse_estimate_box[1], mmse_estimate_box[3])
          = FMul(R(2), mmse_estimate[1])
    /\ FAdd(mmse_estimate_box[2], mmse_estimate_box[4])
          = FMul(R(2), mmse_estimate[2])

\* the tracker has just been constructed, or update_particles has returned
C9_AtEndOfUpdate ==
    /\ args.method = "particle"
    /\ \/ pc = "loop"
       \/ pc = "done"
       \/ pc = "generate_processed_frame"

\* column i of the state that propagate_particles must produce from the
\* state it was given, the draws and dt alone
C9_Propagated(k, i) ==
    LET x == noise.state
        z == noise.Z
    IN  CASE k = 1 -> FAdd(FAdd(x[1][i], FMul(noise.dt, x[3][i])),
                           FMul(R(process_noise_pos_sigma), z[1][i]))
          [] k = 2 -> FAdd(FAdd(x[2][i], FMul(noise.dt, x[4][i])),
                           FMul(R(process_noise_pos_sigma), z[2][i]))
          [] k = 3 -> FAdd(x[3][i], FMul(R(process_noise_vel_sigma), z[3][i]))
          [] k = 4 -> FAdd(x[4][i], FMul(R(process_noise_vel_sigma), z[4][i]))

\* C9: at the end of the construction and of every update_particles the
\* estimate is the unweighted mean of the particles and its box the
\* target-sized box around it; compute_MMSE_estimate changes neither the
\* particles nor the weights; and what propagate_particles produces is
\* determined by the particles, dt and the draws, whatever the estimate is.
C9_EstimateFromParticlesOnly ==
    /\ [](C9_AtEndOfUpdate => C9_EstimateIsMean)
    /\ [][pc = "compute_MMSE_estimate" =>
            /\ current_state' = current_state
            /\ particle_betas' = particle_betas]_vars
    /\ [](LastCall = "propagate_particles" =>
            \A k \in 1..n_states : \A i \in 1..args.n_particle :
                current_state[k][i] = C9_Propagated(k, i))

\* C9's case: the end of an update_particles whose resampling left the
\* particles differing from one another, so that the mean is no particle
C9_Witness ==
    /\ args.method = "particle"
    /\ pc = "generate_processed_frame"
    /\ \E k \in 1..2 : current_state[k][1] # current_state[k][2]
    /\ C9_EstimateIsMean

\* the name of a frame holds no frame number
Unparseable(path) == extract_number(path) = -1

\* C10: a frame of the list whose name holds no frame number ends the run
\* with the error reported: it is the last item the loop takes, nothing is
\* called on it and nothing is stored for it.
C10_UnparseableFrameHaltsRun ==
    \A j \in 1..frames_done :
        Unparseable(considered_list[j][1]) =>
            /\ j = frames_done
            /\ pc = "returned"
            /\ printed[Len(printed)] = <<"Error", considered_list[j][1]>>
            /\ \A i \in 1..Len(calls) : calls[i][2] # considered_list[j][1]

\* the k-th image (k = 1 for the first) of the folder sorted by image name
SortedImage(k) == image_dt_list[k][1]

\* the tracker has been constructed and the loop has taken no frame yet
C11_Constructed == pc \in {"loop", "fault", "done"} /\ frames_done = 0

\* C11: --start_image s and --end_image e are positions from 1 in the sorted
\* frame list: the image the tracker is constructed with is the s-th, and
\* when the run is over the last image processed is the e-th.
C11_StartEndAreOneBased ==
    /\ C11_Constructed => image_path = SortedImage(args.start_image)
    /\ (/\ pc = "done"
        /\ args.end_image \in 1..Len(image_dt_list)
        /\ frames_done > 0) => image_path = SortedImage(args.end_image)

\* the process-noise scale configured for state k (x, y, vx, vy)
C12_Scale(k) ==
    IF k <= 2 THEN process_noise_pos_sigma ELSE process_noise_vel_sigma

\* the noise term of state k of particle i: the scale times the particle's
\* own draw
C12_NoiseTerm(k, i) == FMul(R(C12_Scale(k)), noise.Z[k][i])

\* particle i of the state handed to the last propagate_particles drew no
\* noise
C12_ZeroNoise(i) == \A k \in 1..n_states : noise.Z[k][i] = R(0)

\* propagate_particles has just returned
C12_Propagated ==
    LastCall = "propagate_particles" /\ pc = "update_particles_histograms"

\* particle i after propagate_particles, from particle i before it
C12_ConstantVelocityStep(i) ==
    LET x == noise.state[1][i]
        y == noise.state[2][i]
        vx == noise.state[3][i]
        vy == noise.state[4][i]
    IN  /\ current_state[1][i] =
               FAdd(FAdd(x, FMul(noise.dt, vx)), C12_NoiseTerm(1, i))
        /\ current_state[2][i] =
               FAdd(FAdd(y, FMul(noise.dt, vy)), C12_NoiseTerm(2, i))
        /\ current_state[3][i] = FAdd(vx, C12_NoiseTerm(3, i))
        /\ current_state[4][i] = FAdd(vy, C12_NoiseTerm(4, i))
        /\ C12_ZeroNoise(i) =>
               /\ current_state[1][i] = FAdd(x, FMul(vx, noise.dt))
               /\ current_state[2][i] = FAdd(y, FMul(vy, noise.dt))
               /\ current_state[3][i] = vx
               /\ current_state[4][i] = vy

\* C12: propagate_particles(dt) moves every particle by its own velocity
\* times dt and adds to each state the configured scale times the particle's
\* own draw; without noise the position is exactly position + velocity*dt
\* and the velocity is unchanged; nothing is clamped; the number of
\* particles and the weights are left as they were.
C12_PropagateIsConstantVelocity ==
    /\ [](C12_Propagated =>
            \A i \in 1..args.n_particle : C12_ConstantVelocityStep(i))
    /\ [][pc = "propagate_particles" =>
            /\ particle_betas' = particle_betas
            /\ Len(current_state') = Len(current_state)
            /\ \A k \in 1..n_states :
                   Len(current_state'[k]) = Len(current_state[k])]_vars

\* the position (x, y) lies outside the frame
C12_OffImage(x, y) ==
    \/ FLt(x, R(0))
    \/ FLt(y, R(0))
    \/ FLe(R(ImageCols), x)
    \/ FLe(R(ImageRows), y)

\* C12's case: propagate_particles has moved a particle that has a velocity
\* and drew no noise over a dt that is not zero, and a particle with noise
\* to a position outside the frame
C12_Witness ==
    /\ C12_Propagated
    /\ noise.dt # R(0)
    /\ \E i \in 1..args.n_particle :
          /\ C12_ZeroNoise(i)
          /\ noise.state[3][i] # R(0) \/ noise.state[4][i] # R(0)
          /\ current_state[1][i] # noise.state[1][i]
                \/ current_state[2][i] # noise.state[2][i]
    /\ \E j \in 1..args.n_particle :
          /\ ~C12_ZeroNoise(j)
          /\ ~C12_OffImage(noise.state[1][j], noise.state[2][j])
          /\ C12_OffImage(current_state[1][j], current_state[2][j])

=============================================================================
